---- MODULE Spec2Model ----
(***************************************************************************)
(* Model of package lcs (golcs): the memoizing LCS calculator.             *)
(*                                                                         *)
(* A session holds two input slices and three cache fields.  Every entry  *)
(* point is modelled as the chain of steps its code executes, one caller   *)
(* position (pc) per step, so that a context can be cancelled between the  *)
(* steps and two callers can interleave.                                   *)
(*                                                                         *)
(* Go slices are 0-based, TLA+ sequences 1-based: left[x-1] of the source  *)
(* is left[x] here, and slot pairs[k] of the source is lpairs[k+1] here.   *)
(* The CONTENT of an IndexPair keeps the source's 0-based indices.         *)
(*                                                                         *)
(* A Go slice that may be nil is modelled as a sequence of length 0 (nil)  *)
(* or 1 (non-nil, holding the slice): <<>> is nil, << <<>> >> is the       *)
(* non-nil empty slice that make(T, 0) returns.                            *)
(***************************************************************************)
EXTENDS Integers, Sequences, FiniteSets, TLC

VARIABLES left, right,            \* lcs.left, lcs.right
          table, indexPairs, values,  \* lcs.table, lcs.indexPairs, lcs.values
          pc, op, ctx,            \* per caller: position, entry point, context
          lt, ly,                 \* per caller: local table, loop variable y
          lpairs, wx, wy,         \* per caller: local pairs, walk position x, y
          ret,                    \* per caller: what the call returned
          \* History of the current call of each caller: the number of times
          \* the context was consulted, that number when the context fired
          \* (-1: not fired), where the call was when it fired, whether the
          \* call began to build the table, the cache when the call began.
          checks, firedAfter, firedIn, built, pre,
          \* History of the session: the number of assignments to each cache
          \* field, whether a call has returned an error.
          stores, failed

vars == <<left, right, table, indexPairs, values, pc, op, ctx, lt, ly,
          lpairs, wx, wy, ret, checks, firedAfter, firedIn, built, pre,
          stores, failed>>

cache == <<table, indexPairs, values>>
locals == <<lt, ly, lpairs, wx, wy>>

\* ---------------------------------------------------------------- bounds
MaxLen == 3

Alphabet == {"A", "B"}
Callers == {"c1", "c2"}
SeqCallers == {"c1"}

BoundedSeqs == UNION {[1..k -> Alphabet] : k \in 0..MaxLen}

\* Concrete scenario 1 of the specification (section 8).
ScenarioLeft == <<"A", "B", "C", "B", "D", "A", "B">>
ScenarioRight == <<"B", "D", "C", "A", "B", "A">>

Inputs == (BoundedSeqs \X BoundedSeqs) \cup {<<ScenarioLeft, ScenarioRight>>}

Ops == {"Table", "Length", "IndexPairs", "Values"}
\* context.Background() (the blocking forms), a cancellable context that has
\* not fired, and a context that has fired with one of the two errors
\* ctx.Err() can return.
FiredCtx == {"Canceled", "DeadlineExceeded"}
CtxKinds == {"background", "live"} \cup FiredCtx

NoErr == "nil"

\* ------------------------------------------------- the pure computations
DeepEqual(a, b) == a = b

\* A max that forgets its last argument.
Max3DropsLast(a, b, c) == IF a >= b THEN a ELSE b

\* max(a, b, c) of the Go builtin
Max3(a, b, c) ==
  IF a >= b /\ a >= c THEN a ELSE IF b >= c THEN b ELSE c

ZeroTable(m, n) == [x \in 0..m |-> [y \in 0..n |-> 0]]

Increment(l, r, x, y) == IF DeepEqual(l[x], r[y]) THEN 1 ELSE 0

Cell(t, l, r, x, y) ==
  Max3(t[x-1][y-1] + Increment(l, r, x, y), t[x-1][y], t[x][y-1])

\* for x := 1; x < sizeX; x++ { table[x][y] = ... }
RECURSIVE InnerFrom(_, _, _, _, _)
InnerFrom(t, l, r, y, x) ==
  IF x > Len(l) THEN t
  ELSE InnerFrom([t EXCEPT ![x][y] = Cell(t, l, r, x, y)], l, r, y, x + 1)

\* An inner loop that starts one row too late.
InnerLoopFromTwo(t, l, r, y) == InnerFrom(t, l, r, y, 2)

InnerLoop(t, l, r, y) == InnerFrom(t, l, r, y, 1)

\* the table a run of TableContext that is never cancelled builds
RECURSIVE OuterFrom(_, _, _, _)
OuterFrom(t, l, r, y) ==
  IF y > Len(r) THEN t ELSE OuterFrom(InnerLoop(t, l, r, y), l, r, y + 1)

FreshTable(l, r) == OuterFrom(ZeroTable(Len(l), Len(r)), l, r, 1)

ZeroPair == [Left |-> 0, Right |-> 0]

AllocPairs(t, l, r) == [k \in 1..t[Len(l)][Len(r)] |-> ZeroPair]

\* A tie-break that goes the other way: x is decremented only when the
\* upper neighbour is strictly larger.
PreferXStrict(t, x, y) == t[x-1][y] > t[x][y-1]

\* Whether a mismatch step of the walk decrements x (else it decrements y).
PreferX(t, x, y) == t[x-1][y] >= t[x][y-1]

\* A walk that records the 1-based position in right of a match.
WalkStepOneBased(t, l, r, x, y, pairs) ==
  IF DeepEqual(l[x], r[y])
    THEN <<x - 1, y - 1,
           [pairs EXCEPT ![t[x][y]] = [Left |-> x - 1, Right |-> y]]>>
    ELSE IF PreferX(t, x, y) THEN <<x - 1, y, pairs>>
         ELSE <<x, y - 1, pairs>>

\* One iteration of the backtracking loop: the new <<x, y, pairs>>.
WalkStep(t, l, r, x, y, pairs) ==
  IF DeepEqual(l[x], r[y])
    THEN <<x - 1, y - 1,
           [pairs EXCEPT ![t[x][y]] = [Left |-> x - 1, Right |-> y - 1]]>>
    ELSE IF PreferX(t, x, y) THEN <<x - 1, y, pairs>>
         ELSE <<x, y - 1, pairs>>

RECURSIVE WalkFrom(_, _, _, _, _, _)
WalkFrom(t, l, r, x, y, pairs) ==
  IF x > 0 /\ y > 0
    THEN LET s == WalkStep(t, l, r, x, y, pairs)
         IN WalkFrom(t, l, r, s[1], s[2], s[3])
    ELSE pairs

FreshPairs(l, r) ==
  LET t == FreshTable(l, r)
  IN WalkFrom(t, l, r, Len(l), Len(r), AllocPairs(t, l, r))

\* A projection that fills the values from the last pair to the first.
ProjectReversed(l, pairs) ==
  [i \in 1..Len(pairs) |-> l[pairs[Len(pairs) + 1 - i].Left + 1]]

\* values[i] = lcs.left[pair.Left]
Project(l, pairs) == [i \in 1..Len(pairs) |-> l[pairs[i].Left + 1]]

FreshValues(l, r) == Project(l, FreshPairs(l, r))

\* A select that never finds the context fired.
CtxDoneNever(p) == FALSE

\* A select that looks at the context in the first outer iteration only.
CtxDoneFirstOnly(p) == ctx[p] \in FiredCtx /\ ly[p] = 1

\* case <-ctx.Done(): whether the select finds the context fired
CtxDone(p) == ctx[p] \in FiredCtx

\* ------------------------------------------------------- cache predicates
TableCached == table # <<>>
\* A cache test by length, which takes an empty pair list for no list.
IndexPairsCachedNonEmpty == indexPairs # <<>> /\ Len(indexPairs[1]) > 0

IndexPairsCached == indexPairs # <<>>
ValuesCached == values # <<>>

\* ------------------------------------------------------------- the state
\* The state of a session New(l, r) has just constructed, no call made yet.
New(l, r) ==
  /\ left = l /\ right = r
  /\ table = <<>> /\ indexPairs = <<>> /\ values = <<>>
  /\ pc = [p \in Callers |-> "idle"]
  /\ op = [p \in Callers |-> "Table"]
  /\ ctx = [p \in Callers |-> "background"]
  /\ lt = [p \in Callers |-> <<>>]
  /\ ly = [p \in Callers |-> 0]
  /\ lpairs = [p \in Callers |-> <<>>]
  /\ wx = [p \in Callers |-> 0]
  /\ wy = [p \in Callers |-> 0]
  /\ ret = [p \in Callers |-> [val |-> <<>>, err |-> NoErr]]
  /\ checks = [p \in Callers |-> 0]
  /\ firedAfter = [p \in Callers |-> 0 - 1]
  /\ firedIn = [p \in Callers |-> "none"]
  /\ built = [p \in Callers |-> FALSE]
  /\ pre = [p \in Callers |-> <<<<>>, <<>>, <<>>>>]
  /\ stores = [f \in {"table", "indexPairs", "values"} |-> 0]
  /\ failed = FALSE

Init == \E in \in Inputs : New(in[1], in[2])

EntryPc(o) ==
  CASE o = "Values" -> "values"
    [] o = "IndexPairs" -> "pairs"
    [] OTHER -> "table"

\* What an entry point returns beside a non-nil error.
ErrVal(o) == IF o = "Length" THEN <<0>> ELSE <<>>

\* A cancellation that leaves the table under construction in the cache.
ReturnErrKeepsTable(p, e) ==
  /\ pc' = [pc EXCEPT ![p] = "done"]
  /\ ret' = [ret EXCEPT ![p] = [val |-> ErrVal(op[p]), err |-> e]]
  /\ failed' = TRUE
  /\ table' = <<lt[p]>>
  /\ UNCHANGED <<indexPairs, values>>

\* return nil, ctx.Err(): the table under construction is dropped, and the
\* frames of the callers unwind with the error of TableContext.
ReturnErr(p, e) ==
  /\ pc' = [pc EXCEPT ![p] = "done"]
  /\ ret' = [ret EXCEPT ![p] = [val |-> ErrVal(op[p]), err |-> e]]
  /\ failed' = TRUE
  /\ UNCHANGED cache

ReturnVal(p, v) ==
  /\ pc' = [pc EXCEPT ![p] = "done"]
  /\ ret' = [ret EXCEPT ![p] = [val |-> <<v>>, err |-> NoErr]]
  /\ UNCHANGED failed

\* TableContext has returned t without error to the frame that called it.
AfterTable(p, t) ==
  CASE op[p] = "Table" -> ReturnVal(p, t)
    [] op[p] = "Length" -> ReturnVal(p, t[Len(left)][Len(right)])
    [] OTHER -> /\ pc' = [pc EXCEPT ![p] = "alloc"]
                /\ UNCHANGED <<ret, failed>>

\* IndexPairsContext has returned pairs without error to its caller.
AfterPairs(p, pairs) ==
  IF op[p] = "IndexPairs" THEN ReturnVal(p, pairs)
  ELSE /\ pc' = [pc EXCEPT ![p] = "project"]
       /\ UNCHANGED <<ret, failed>>

\* ------------------------------------------------------------ the actions
\* A caller enters one of the entry points with a context.
Begin(p, o, c) ==
  /\ pc[p] \in {"idle", "done"}
  /\ op' = [op EXCEPT ![p] = o]
  /\ ctx' = [ctx EXCEPT ![p] = c]
  /\ pc' = [pc EXCEPT ![p] = EntryPc(o)]
  /\ lt' = [lt EXCEPT ![p] = <<>>]
  /\ ly' = [ly EXCEPT ![p] = 0]
  /\ lpairs' = [lpairs EXCEPT ![p] = <<>>]
  /\ wx' = [wx EXCEPT ![p] = 0]
  /\ wy' = [wy EXCEPT ![p] = 0]
  /\ ret' = [ret EXCEPT ![p] = [val |-> <<>>, err |-> NoErr]]
  /\ checks' = [checks EXCEPT ![p] = 0]
  /\ firedAfter' = [firedAfter EXCEPT ![p] = IF c \in FiredCtx THEN 0 ELSE 0 - 1]
  /\ firedIn' = [firedIn EXCEPT ![p] = IF c \in FiredCtx THEN "precall" ELSE "none"]
  /\ built' = [built EXCEPT ![p] = FALSE]
  /\ pre' = [pre EXCEPT ![p] = cache]
  /\ UNCHANGED <<left, right, cache, stores, failed>>

\* The context of a call in progress fires.
Cancel(p, e) ==
  /\ pc[p] \notin {"idle", "done"}
  /\ ctx[p] = "live"
  /\ ctx' = [ctx EXCEPT ![p] = e]
  /\ firedAfter' = [firedAfter EXCEPT ![p] = checks[p]]
  /\ firedIn' = [firedIn EXCEPT ![p] =
       CASE pc[p] \in {"values", "pairs", "table"} -> "before"
         [] pc[p] = "loop" /\ ly[p] <= Len(right) -> "between"
         [] pc[p] = "inner" -> "iteration"
         [] OTHER -> "after"]
  /\ UNCHANGED <<left, right, cache, pc, op, locals, ret, checks, built, pre,
                 stores, failed>>

\* ValuesContext: if lcs.values != nil { return lcs.values, nil }
ValuesCheck(p) ==
  /\ pc[p] = "values"
  /\ IF ValuesCached THEN ReturnVal(p, values[1])
     ELSE /\ pc' = [pc EXCEPT ![p] = "pairs"]
          /\ UNCHANGED <<ret, failed>>
  /\ UNCHANGED <<left, right, cache, op, ctx, locals, checks, firedAfter,
                 firedIn, built, pre, stores>>

\* IndexPairsContext: if lcs.indexPairs != nil { return lcs.indexPairs, nil }
PairsCheck(p) ==
  /\ pc[p] = "pairs"
  /\ IF IndexPairsCached
       THEN /\ lpairs' = [lpairs EXCEPT ![p] = indexPairs[1]]
            /\ AfterPairs(p, indexPairs[1])
       ELSE /\ pc' = [pc EXCEPT ![p] = "table"]
            /\ UNCHANGED <<lpairs, ret, failed>>
  /\ UNCHANGED <<left, right, cache, op, ctx, lt, ly, wx, wy, checks,
                 firedAfter, firedIn, built, pre, stores>>

\* TableContext: the cache test, and the allocation of the zeroed grid.
TableCheck(p) ==
  /\ pc[p] = "table"
  /\ IF TableCached
       THEN /\ lt' = [lt EXCEPT ![p] = table[1]]
            /\ AfterTable(p, table[1])
            /\ UNCHANGED <<ly, built>>
       ELSE /\ lt' = [lt EXCEPT ![p] = ZeroTable(Len(left), Len(right))]
            /\ ly' = [ly EXCEPT ![p] = 1]
            /\ built' = [built EXCEPT ![p] = TRUE]
            /\ pc' = [pc EXCEPT ![p] = "loop"]
            /\ UNCHANGED <<ret, failed>>
  /\ UNCHANGED <<left, right, cache, op, ctx, lpairs, wx, wy, checks,
                 firedAfter, firedIn, pre, stores>>

\* The head of an outer iteration: the select on ctx.Done().
LoopCheck(p) ==
  /\ pc[p] = "loop"
  /\ ly[p] <= Len(right)
  /\ checks' = [checks EXCEPT ![p] = @ + 1]
  /\ IF CtxDone(p) THEN ReturnErr(p, ctx[p])
     ELSE /\ pc' = [pc EXCEPT ![p] = "inner"]
          /\ UNCHANGED <<ret, failed, cache>>
  /\ UNCHANGED <<left, right, op, ctx, locals, firedAfter, firedIn,
                 built, pre, stores>>

\* The inner loop over x of one outer iteration, and y++.
Inner(p) ==
  /\ pc[p] = "inner"
  /\ lt' = [lt EXCEPT ![p] = InnerLoop(lt[p], left, right, ly[p])]
  /\ ly' = [ly EXCEPT ![p] = @ + 1]
  /\ pc' = [pc EXCEPT ![p] = "loop"]
  /\ UNCHANGED <<left, right, cache, op, ctx, lpairs, wx, wy, ret, checks,
                 firedAfter, firedIn, built, pre, stores, failed>>

\* The outer loop is over: lcs.table = table; return table, nil
TableStore(p) ==
  /\ pc[p] = "loop"
  /\ ly[p] > Len(right)
  /\ table' = <<lt[p]>>
  /\ stores' = [stores EXCEPT !["table"] = @ + 1]
  /\ AfterTable(p, lt[p])
  /\ UNCHANGED <<left, right, indexPairs, values, op, ctx, locals, checks,
                 firedAfter, firedIn, built, pre>>

\* IndexPairsContext: pairs = make(...), x, y := len(left), len(right)
PairsAlloc(p) ==
  /\ pc[p] = "alloc"
  /\ lpairs' = [lpairs EXCEPT ![p] = AllocPairs(lt[p], left, right)]
  /\ wx' = [wx EXCEPT ![p] = Len(left)]
  /\ wy' = [wy EXCEPT ![p] = Len(right)]
  /\ pc' = [pc EXCEPT ![p] = "walk"]
  /\ UNCHANGED <<left, right, cache, op, ctx, lt, ly, ret, checks, firedAfter,
                 firedIn, built, pre, stores, failed>>

\* One iteration of the backtracking loop.
Backtrack(p) ==
  /\ pc[p] = "walk"
  /\ wx[p] > 0 /\ wy[p] > 0
  /\ LET s == WalkStep(lt[p], left, right, wx[p], wy[p], lpairs[p])
     IN /\ wx' = [wx EXCEPT ![p] = s[1]]
        /\ wy' = [wy EXCEPT ![p] = s[2]]
        /\ lpairs' = [lpairs EXCEPT ![p] = s[3]]
  /\ UNCHANGED <<left, right, cache, pc, op, ctx, lt, ly, ret, checks,
                 firedAfter, firedIn, built, pre, stores, failed>>

\* The walk is over: lcs.indexPairs = pairs; return pairs, nil
PairsStore(p) ==
  /\ pc[p] = "walk"
  /\ ~(wx[p] > 0 /\ wy[p] > 0)
  /\ indexPairs' = <<lpairs[p]>>
  /\ stores' = [stores EXCEPT !["indexPairs"] = @ + 1]
  /\ AfterPairs(p, lpairs[p])
  /\ UNCHANGED <<left, right, table, values, op, ctx, locals, checks,
                 firedAfter, firedIn, built, pre>>

\* ValuesContext: the projection, lcs.values = values; return values, nil
ValuesStore(p) ==
  /\ pc[p] = "project"
  /\ values' = <<Project(left, lpairs[p])>>
  /\ stores' = [stores EXCEPT !["values"] = @ + 1]
  /\ ReturnVal(p, Project(left, lpairs[p]))
  /\ UNCHANGED <<left, right, table, indexPairs, op, ctx, locals, checks,
                 firedAfter, firedIn, built, pre>>

Compute(p) ==
  \/ ValuesCheck(p)
  \/ PairsCheck(p)
  \/ TableCheck(p)
  \/ LoopCheck(p)
  \/ Inner(p)
  \/ TableStore(p)
  \/ PairsAlloc(p)
  \/ Backtrack(p)
  \/ PairsStore(p)
  \/ ValuesStore(p)

Step(p) ==
  \/ Compute(p)
  \/ \E e \in FiredCtx : Cancel(p, e)

\* One caller: a call begins when the previous one has returned.
Next ==
  \E p \in SeqCallers :
    \/ \E o \in Ops, c \in CtxKinds : Begin(p, o, c)
    \/ Step(p)

Spec == Init /\ [][Next]_vars

\* Two goroutines share the session, with no synchronization between them.
\* Each access to a cache field is taken as one atomic step: a subset of
\* what a racy build can do, enough to refute a claim of mutual exclusion.
\* The callers use the blocking forms, whose context never fires.
NextConc ==
  \E p \in Callers :
    \/ \E o \in Ops : Begin(p, o, "background")
    \/ Compute(p)

ConcSeqs == {<<>>, <<"A">>, <<"B", "A">>}

InitConc == \E l \in ConcSeqs, r \in ConcSeqs : New(l, r)

SpecConc == InitConc /\ [][NextConc]_vars

\* ------------------------------------------------------------------------
\* Reference definitions, independent of the dynamic program.
\* ------------------------------------------------------------------------
\* The subsequence of s at the index set I, in ascending order of index.
RECURSIVE Pick(_, _, _)
Pick(s, I, k) ==
  IF k > Len(s) THEN <<>>
  ELSE (IF k \in I THEN <<s[k]>> ELSE <<>>) \o Pick(s, I, k + 1)

Subseqs(s) == {Pick(s, I, 1) : I \in SUBSET (1..Len(s))}

\* A set of k matched index pairs strictly increasing in both coordinates is
\* an index set I of l and an index set J of r, both of size k, that pick
\* the same sequence: the maximum k is the length of a longest sequence
\* that is a subsequence of both.
RefLcsLength(l, r) ==
  LET common == Subseqs(l) \cap Subseqs(r)
  IN CHOOSE k \in 0..Len(l) :
       /\ \E c \in common : Len(c) = k
       /\ \A c \in common : Len(c) <= k

Done(p) == pc[p] = "done"
Ok(p) == Done(p) /\ ret[p].err = NoErr
NeverCancelled(p) == ctx[p] \notin FiredCtx

\* ------------------------------------------------------------------------
\* C1: Length()/LengthContext with a context that is never cancelled
\* returns table[len(left)][len(right)] without error, and that number is
\* the length of a longest common subsequence of left and right.
\* ------------------------------------------------------------------------
LengthIsLcsLength ==
  \A p \in Callers :
    (Done(p) /\ op[p] = "Length" /\ NeverCancelled(p)) =>
      /\ ret[p].err = NoErr
      /\ TableCached
      /\ ret[p].val = <<table[1][Len(left)][Len(right)]>>
      /\ ret[p].val = <<RefLcsLength(left, right)>>

LengthWitness ==
  \E p \in Callers :
    /\ Done(p) /\ op[p] = "Length" /\ NeverCancelled(p)
    /\ left = ScenarioLeft /\ right = ScenarioRight
    /\ ret[p].val = <<4>>

\* ------------------------------------------------------------------------
\* C9: the table Table() returns has (len(left)+1) x (len(right)+1) cells,
\* zero in row 0 and column 0, each other cell the diagonal plus one where
\* the elements are equal and the larger of its upper and left neighbours
\* where they are not, and it does not decrease along either axis.
\* ------------------------------------------------------------------------
IsLcsTable(t) ==
  LET m == Len(left)
      n == Len(right)
  IN /\ DOMAIN t = 0..m
     /\ \A x \in 0..m : DOMAIN t[x] = 0..n
     /\ \A x \in 0..m : t[x][0] = 0
     /\ \A y \in 0..n : t[0][y] = 0
     /\ \A x \in 1..m, y \in 1..n :
          IF left[x] = right[y]
            THEN t[x][y] = t[x-1][y-1] + 1
            ELSE t[x][y] = (IF t[x-1][y] >= t[x][y-1] THEN t[x-1][y]
                                                      ELSE t[x][y-1])
     /\ \A x \in 1..m, y \in 0..n : t[x-1][y] <= t[x][y]
     /\ \A x \in 0..m, y \in 1..n : t[x][y-1] <= t[x][y]

TableRecurrence ==
  \A p \in Callers :
    (Ok(p) /\ op[p] = "Table") =>
      /\ IsLcsTable(ret[p].val[1])
      /\ table = ret[p].val

TableWitness ==
  \E p \in Callers :
    /\ Ok(p) /\ op[p] = "Table"
    /\ Len(left) = MaxLen /\ Len(right) = MaxLen
    /\ ret[p].val[1][Len(left)][Len(right)] = 2
    /\ left[1] # right[1]

\* ------------------------------------------------------------------------
\* C2: the list IndexPairs() returns has Length() entries, each entry (i, j)
\* within the bounds of left and right with left[i] equal to right[j], and
\* consecutive entries strictly increase in both coordinates.
\* ------------------------------------------------------------------------
IsAlignment(ps) ==
  /\ \A k \in 1..Len(ps) :
       /\ 0 <= ps[k].Left /\ ps[k].Left < Len(left)
       /\ 0 <= ps[k].Right /\ ps[k].Right < Len(right)
       /\ left[ps[k].Left + 1] = right[ps[k].Right + 1]
  /\ \A k \in 1..(Len(ps) - 1) :
       /\ ps[k].Left < ps[k+1].Left
       /\ ps[k].Right < ps[k+1].Right

IndexPairsAligned ==
  \A p \in Callers :
    (Ok(p) /\ op[p] = "IndexPairs") =>
      /\ TableCached
      /\ Len(ret[p].val[1]) = table[1][Len(left)][Len(right)]
      /\ IsAlignment(ret[p].val[1])

IndexPairsWitness ==
  \E p \in Callers :
    /\ Ok(p) /\ op[p] = "IndexPairs"
    /\ Len(ret[p].val[1]) >= 2
    /\ ret[p].val[1][1] # ZeroPair
    /\ left # right

\* ------------------------------------------------------------------------
\* C3: Values() has Length() elements, its k-th element is the element of
\* left at the k-th pair's Left and of right at the k-th pair's Right, and
\* it is a common subsequence of left and right of maximum length.
\* ------------------------------------------------------------------------
ValuesFollowPairs ==
  \A p \in Callers :
    (Ok(p) /\ op[p] = "Values") =>
      LET vs == ret[p].val[1]
      IN /\ TableCached /\ IndexPairsCached
         /\ Len(vs) = table[1][Len(left)][Len(right)]
         /\ Len(vs) = Len(indexPairs[1])
         /\ \A k \in 1..Len(vs) :
              /\ vs[k] = left[indexPairs[1][k].Left + 1]
              /\ vs[k] = right[indexPairs[1][k].Right + 1]
         /\ vs \in Subseqs(left) \cap Subseqs(right)
         /\ Len(vs) = RefLcsLength(left, right)

ValuesWitness ==
  \E p \in Callers :
    /\ Ok(p) /\ op[p] = "Values"
    /\ left = ScenarioLeft /\ right = ScenarioRight
    /\ Len(ret[p].val[1]) = 4

\* ------------------------------------------------------------------------
\* C10: the alignment IndexPairs() returns is the one the reference walk
\* produces: from (len(left), len(right)), until x = 0 or y = 0, a match
\* records (x-1, y-1) at position table[x][y]-1 and decrements both, a
\* mismatch decrements x when table[x-1][y] >= table[x][y-1] and y only when
\* table[x][y-1] is strictly larger; the walk of the code ends with x = 0 or
\* y = 0; for left = ABCBDAB and right = BDCABA the length is 4.
\* ------------------------------------------------------------------------
\* The slots the reference walk writes, as <<slot, Left, Right>> with the
\* 0-based slot of the source.
RECURSIVE RefWalk(_, _, _)
RefWalk(t, x, y) ==
  IF x = 0 \/ y = 0 THEN {}
  ELSE IF left[x] = right[y]
    THEN {<<t[x][y] - 1, x - 1, y - 1>>} \cup RefWalk(t, x - 1, y - 1)
  ELSE IF t[x-1][y] > t[x][y-1] \/ t[x-1][y] = t[x][y-1]
    THEN RefWalk(t, x - 1, y)
  ELSE RefWalk(t, x, y - 1)

Slots(ps) == {<<k - 1, ps[k].Left, ps[k].Right>> : k \in 1..Len(ps)}

WalkIsReferenceWalk ==
  \A p \in Callers :
    /\ (Ok(p) /\ op[p] = "IndexPairs") =>
         /\ TableCached
         /\ Slots(ret[p].val[1]) = RefWalk(table[1], Len(left), Len(right))
         /\ Cardinality(Slots(ret[p].val[1])) = table[1][Len(left)][Len(right)]
         /\ (left = ScenarioLeft /\ right = ScenarioRight) =>
              Len(ret[p].val[1]) = 4
    /\ (Ok(p) /\ op[p] = "IndexPairs" /\ pre[p][2] = <<>>) =>
         (wx[p] = 0 \/ wy[p] = 0)

\* left = AB, right = BA has the two alignments (0,1) and (1,0); the tie at
\* (2,2) decrements x, which leaves the match of the two A.
WalkWitness ==
  \E p \in Callers :
    /\ Ok(p) /\ op[p] = "IndexPairs"
    /\ left = <<"A", "B">> /\ right = <<"B", "A">>
    /\ ret[p].val[1] = <<[Left |-> 0, Right |-> 1]>>

\* What a freshly constructed session returns from entry point o when its
\* context never fires.
FreshResult(o) ==
  CASE o = "Table" -> FreshTable(left, right)
    [] o = "Length" -> FreshTable(left, right)[Len(left)][Len(right)]
    [] o = "IndexPairs" -> FreshPairs(left, right)
    [] o = "Values" -> FreshValues(left, right)

\* The cache field an entry point memoizes (Length has none), taken from a
\* snapshot c of the three fields.
FieldOf(o, c) ==
  CASE o = "Table" -> c[1]
    [] o = "IndexPairs" -> c[2]
    [] o = "Values" -> c[3]
    [] OTHER -> <<>>

\* ------------------------------------------------------------------------
\* C5: once Table(), IndexPairs() or Values() has returned successfully,
\* every later call of it, with any context, returns the same value without
\* recomputing: each cache field is assigned at most once in the lifetime
\* of the session and keeps its value, an empty pair or value list too.
\* ------------------------------------------------------------------------
CacheWrittenOnce ==
  /\ \A f \in DOMAIN stores : stores[f] <= 1
  /\ \A p \in Callers :
       \* a field cached when the call began still holds that value
       /\ \A i \in 1..3 : pre[p][i] # <<>> => cache[i] = pre[p][i]
       \* a successful call leaves what it returned in the cache
       /\ (Ok(p) /\ op[p] # "Length") => FieldOf(op[p], cache) = ret[p].val
       \* a call that found its result cached returns it, fired context or not
       /\ (Done(p) /\ FieldOf(op[p], pre[p]) # <<>>) =>
            /\ ret[p].err = NoErr
            /\ ret[p].val = FieldOf(op[p], pre[p])
            /\ ~built[p]

CacheWitness ==
  \E p \in Callers :
    /\ Done(p) /\ op[p] = "IndexPairs"
    /\ pre[p][2] = << <<>> >>
    /\ ctx[p] \in FiredCtx
    /\ left # <<>> /\ right # <<>>
    /\ ret[p].val = << <<>> >>

\* ------------------------------------------------------------------------
\* C6: when a call returns an error, the three cache fields are as they
\* were when the call began, the error is the one of the context that
\* table construction found fired, and every call that returns without
\* error, a call after a failed one too, returns what a freshly constructed
\* session returns, building the table anew when none is cached.
\* ------------------------------------------------------------------------
CancelLeavesCache ==
  \A p \in Callers :
    /\ (Done(p) /\ ret[p].err # NoErr) =>
         /\ cache = pre[p]
         /\ table = <<>>
         /\ ctx[p] \in FiredCtx /\ ret[p].err = ctx[p]
         /\ ret[p].val = ErrVal(op[p])
         /\ built[p]
    /\ Ok(p) =>
         /\ ret[p].val = <<FreshResult(op[p])>>
         /\ pre[p][1] = <<>> => built[p]

CancelWitness ==
  \E p \in Callers :
    /\ failed /\ Ok(p) /\ op[p] = "Values"
    /\ pre[p] = <<<<>>, <<>>, <<>>>> /\ built[p]
    /\ Len(ret[p].val[1]) >= 2

\* ------------------------------------------------------------------------
\* C4 as stated: with a context that has fired before the call, every
\* cancellable entry point, on any session and for any inputs, returns an
\* error and stores nothing.
\* ------------------------------------------------------------------------
PreCancelled(p) == firedIn[p] = "precall"

PreCancelledAlwaysFails ==
  \A p \in Callers :
    (Done(p) /\ PreCancelled(p)) => (ret[p].err # NoErr /\ cache = pre[p])

\* ------------------------------------------------------------------------
\* C4 amended: with a context that has fired before the call, a cancellable
\* entry point returns the context's error and stores nothing exactly when
\* the session has no table cached and right is not empty; with a cached
\* table or an empty right the call returns without error.  A call whose
\* context has not fired returns without error the result of a fresh
\* session.
\* ------------------------------------------------------------------------
PreCancelledFailsWhenChecked ==
  \A p \in Callers :
    /\ (Done(p) /\ PreCancelled(p)) =>
         IF pre[p][1] = <<>> /\ right # <<>>
           THEN ret[p].err = ctx[p] /\ cache = pre[p] /\ table = <<>>
           ELSE ret[p].err = NoErr
    /\ (Done(p) /\ NeverCancelled(p)) =>
         (ret[p].err = NoErr /\ ret[p].val = <<FreshResult(op[p])>>)

PreCancelledWitness ==
  \E p \in Callers :
    /\ Done(p) /\ PreCancelled(p) /\ op[p] = "Values"
    /\ ret[p].err = "DeadlineExceeded"
    /\ Len(right) >= 2 /\ Len(left) >= 2

\* ------------------------------------------------------------------------
\* C8 as stated: a call that builds the table fails when its context fires
\* at any point of the construction, before or between the outer
\* iterations or during one of them, the last one too.  (Stated for a right
\* that is not empty, so that there is an outer iteration to fire in.)
\* ------------------------------------------------------------------------
FiredDuringConstruction(p) ==
  firedIn[p] \in {"precall", "before", "between", "iteration"}

FiringAlwaysFails ==
  \A p \in Callers :
    (Done(p) /\ built[p] /\ right # <<>> /\ FiredDuringConstruction(p)) =>
      ret[p].err # NoErr

\* ------------------------------------------------------------------------
\* C8 amended: a call that builds the table fails exactly when its context
\* had fired by one of the checks, that is before the check that opens the
\* last outer iteration; a context that fires after that check, during the
\* last iteration or later, is not seen and the call completes.  The
\* context is consulted once at the start of each outer iteration and
\* nowhere else: len(right) times in a call that completes, and one more
\* time than before the firing in a call that fails.
\* ------------------------------------------------------------------------
FiringFailsAtNextCheck ==
  \A p \in Callers :
    /\ checks[p] <= Len(right)
    /\ (pc[p] \in {"loop", "inner"}) =>
         checks[p] = (IF pc[p] = "inner" THEN ly[p] ELSE ly[p] - 1)
    /\ (Done(p) /\ built[p]) =>
         /\ ret[p].err # NoErr <=>
              (0 <= firedAfter[p] /\ firedAfter[p] < Len(right))
         /\ ret[p].err = NoErr => checks[p] = Len(right)
         /\ ret[p].err # NoErr => checks[p] = firedAfter[p] + 1

FiringWitness ==
  \E p \in Callers :
    /\ Done(p) /\ built[p]
    /\ firedIn[p] = "iteration"
    /\ ret[p].err # NoErr
    /\ checks[p] = 2

\* A context that fires during the last outer iteration goes unseen.
FiringUnseenWitness ==
  \E p \in Callers :
    /\ Ok(p) /\ built[p]
    /\ firedIn[p] = "iteration"
    /\ Len(right) >= 2

\* ------------------------------------------------------------------------
\* C7: with two callers interleaved on one session, each of table,
\* indexPairs and values is computed and stored at most once, and both
\* callers observe the same stored result.
\* ------------------------------------------------------------------------
StoredAtMostOnce ==
  /\ \A f \in DOMAIN stores : stores[f] <= 1
  /\ \A p, q \in Callers :
       (Ok(p) /\ Ok(q) /\ op[p] = op[q]) => ret[p].val = ret[q].val

====
